---- MODULE Spec2Model ----
(***************************************************************************)
(* A model of the OTA client of src/src/ESP32OTAClient.h (version 1.0.3,   *)
(* lines 1-628): the manifest evaluation of hasUpdate, the EEPROM ledger   *)
(* of the last installed firmware filename, the streaming download of      *)
(* doUpdate, and the rollback operations on the platform's partitions.     *)
(*                                                                         *)
(* Strings are sequences of character codes (0..255), so that the          *)
(* comparisons and the slicing of Arduino's String are computed and not    *)
(* assumed.  The EEPROM is a byte array: the RAM buffer of the EEPROM      *)
(* library and the committed image in flash are kept apart.                *)
(***************************************************************************)
EXTENDS Integers, Sequences, FiniteSets, TLC

(***************************************************************************)
(* Program constants.                                                      *)
(***************************************************************************)
OTA_EEPROM_SIZE == 128
OTA_EEPROM_START_ADDR == 0
OTA_EEPROM_MAGIC == 43605
maxRedirects == 5
BuffSize == 512
Slash == 47
QMark == 63

(***************************************************************************)
(* Bounds of the model.                                                    *)
(***************************************************************************)
MaxEntries == 2

EmptyStr == << >>
NULL == "NULL"

(***************************************************************************)
(* Arduino String helpers, 0-based as in the source.                       *)
(***************************************************************************)
\* String::lastIndexOf(char): the greatest 0-based index holding c, or -1.
lastIndexOf(s, c) ==
  LET hits == {i \in 1..Len(s) : s[i] = c}
  IN IF hits = {} THEN -1
     ELSE (CHOOSE i \in hits : \A j \in hits : j <= i) - 1

\* String::indexOf(char): the least 0-based index holding c, or -1.
indexOf(s, c) ==
  LET hits == {i \in 1..Len(s) : s[i] = c}
  IN IF hits = {} THEN -1
     ELSE (CHOOSE i \in hits : \A j \in hits : i <= j) - 1

\* String::substring(from, to): the characters at 0-based indexes from..to-1.
substring(s, from, to) == SubSeq(s, from + 1, to)

\* String(const char *): the bytes before the first NUL.
CString(bytes) ==
  LET z == indexOf(bytes, 0)
  IN IF z = -1 THEN bytes ELSE substring(bytes, 0, z)

\* String::operator> : compareTo(rhs) > 0, strcmp on the character codes.
RECURSIVE StrGreaterFrom(_, _, _)
StrGreaterFrom(a, b, i) ==
  IF i > Len(a) THEN FALSE
  ELSE IF i > Len(b) THEN TRUE
  ELSE IF a[i] # b[i] THEN a[i] > b[i]
  ELSE StrGreaterFrom(a, b, i + 1)

\* Variant of StrGreater that also accepts equal strings.
StrGreaterOrEqual(a, b) == a = b \/ StrGreaterFrom(a, b, 1)

StrGreater(a, b) == StrGreaterFrom(a, b, 1)

(***************************************************************************)
(* extractFilename: the text after the last '/', cut at the first '?' when *)
(* that '?' is not its first character.                                    *)
(***************************************************************************)
\* Variant of extractFilename that keeps the whole URL.
extractFilenameWholeUrl(url) == url

extractFilename(url) ==
  LET lastSlash == lastIndexOf(url, Slash)
  IN IF lastSlash >= 0 /\ lastSlash < Len(url) - 1
     THEN LET filename == substring(url, lastSlash + 1, Len(url))
              queryIndex == indexOf(filename, QMark)
          IN IF queryIndex > 0
             THEN substring(filename, 0, queryIndex)
             ELSE filename
     ELSE EmptyStr

(***************************************************************************)
(* The EEPROM ledger.  A ledger value led is the record                    *)
(*   [init  : _eepromInitialized,                                          *)
(*    last  : _lastInstalledFilename,                                      *)
(*    ram   : the RAM buffer of the EEPROM library (valid after begin),    *)
(*    flash : the committed image, which survives a restart].              *)
(* Both byte arrays map 0..OTA_EEPROM_SIZE-1 to 0..255.                    *)
(***************************************************************************)
Addrs == 0..(OTA_EEPROM_SIZE - 1)

\* EEPROM.get(addr, uint16_t): two bytes, little-endian.
EepromGet16(bytes, addr) == bytes[addr] + 256 * bytes[addr + 1]

\* The byte array after EEPROM.put(START, MAGIC), EEPROM.write(START+2, len)
\* and the EEPROM.write of every character of filename.
WriteRecord(bytes, filename) ==
  [a \in Addrs |->
     IF a = OTA_EEPROM_START_ADDR THEN OTA_EEPROM_MAGIC % 256
     ELSE IF a = OTA_EEPROM_START_ADDR + 1 THEN OTA_EEPROM_MAGIC \div 256
     ELSE IF a = OTA_EEPROM_START_ADDR + 2 THEN Len(filename) % 256
     ELSE IF a - (OTA_EEPROM_START_ADDR + 3) \in 0..(Len(filename) - 1)
          THEN filename[a - (OTA_EEPROM_START_ADDR + 3) + 1] % 256
     ELSE bytes[a]]

\* The byte array after the two EEPROM.write(.., 0) of clearFirmwareRecord.
WriteClear(bytes) ==
  [a \in Addrs |->
     IF a = OTA_EEPROM_START_ADDR \/ a = OTA_EEPROM_START_ADDR + 1
     THEN 0 ELSE bytes[a]]

\* Variant of initEEPROM that accepts one length fewer.
initEEPROMShortLimit(led) ==
  IF led.init THEN led
  ELSE LET ram == led.flash
           magic == EepromGet16(ram, OTA_EEPROM_START_ADDR)
           len == ram[OTA_EEPROM_START_ADDR + 2]
       IN [init |-> TRUE,
           ram |-> ram,
           flash |-> led.flash,
           last |-> IF magic = OTA_EEPROM_MAGIC
                       /\ len > 0 /\ len < OTA_EEPROM_SIZE - 4
                    THEN CString([i \in 1..len |->
                                    ram[OTA_EEPROM_START_ADDR + 3 + (i - 1)]])
                    ELSE led.last]

\* initEEPROM: once per boot, EEPROM.begin loads the committed image and a
\* record with the magic marker and a length in 1..124 sets the filename.
initEEPROM(led) ==
  IF led.init THEN led
  ELSE LET ram == led.flash
           magic == EepromGet16(ram, OTA_EEPROM_START_ADDR)
           len == ram[OTA_EEPROM_START_ADDR + 2]
       IN [init |-> TRUE,
           ram |-> ram,
           flash |-> led.flash,
           last |-> IF magic = OTA_EEPROM_MAGIC
                       /\ len > 0 /\ len < OTA_EEPROM_SIZE - 3
                    THEN CString([i \in 1..len |->
                                    ram[OTA_EEPROM_START_ADDR + 3 + (i - 1)]])
                    ELSE led.last]

\* Whether saveFilenameToEEPROM refuses the filename as too long.
FilenameTooLong(filename) == Len(filename) >= OTA_EEPROM_SIZE - 3

\* Variant of saveFilenameToEEPROM without the length test.
saveFilenameNoLengthCheck(led0, filename, commitOk) ==
  LET led == initEEPROM(led0)
      ram == WriteRecord(led.ram, filename)
  IN IF commitOk
     THEN [ok |-> TRUE,
           led |-> [init |-> TRUE, last |-> filename,
                    ram |-> ram, flash |-> ram]]
     ELSE [ok |-> FALSE, led |-> [led EXCEPT !.ram = ram]]

\* Variant of saveFilenameToEEPROM that sets the filename in memory before
\* the commit.
saveFilenameBeforeCommit(led0, filename, commitOk) ==
  LET led == initEEPROM(led0)
  IN IF FilenameTooLong(filename)
     THEN [ok |-> FALSE, led |-> led]
     ELSE LET ram == WriteRecord(led.ram, filename)
          IN IF commitOk
             THEN [ok |-> TRUE,
                   led |-> [init |-> TRUE, last |-> filename,
                            ram |-> ram, flash |-> ram]]
             ELSE [ok |-> FALSE,
                   led |-> [led EXCEPT !.ram = ram, !.last = filename]]

\* saveFilenameToEEPROM: [ok, led].  commitOk is the result of
\* EEPROM.commit(), which copies the RAM buffer to flash when it succeeds.
saveFilenameToEEPROM(led0, filename, commitOk) ==
  LET led == initEEPROM(led0)
  IN IF FilenameTooLong(filename)
     THEN [ok |-> FALSE, led |-> led]
     ELSE LET ram == WriteRecord(led.ram, filename)
          IN IF commitOk
             THEN [ok |-> TRUE,
                   led |-> [init |-> TRUE, last |-> filename,
                            ram |-> ram, flash |-> ram]]
             ELSE [ok |-> FALSE,
                   led |-> [led EXCEPT !.ram = ram]]

\* clearFirmwareRecord: [ok, led].
\* Variant of clearFirmwareRecord that keeps the filename in memory.
clearFirmwareRecordKeepingName(led0, commitOk) ==
  LET led == initEEPROM(led0)
      ram == WriteClear(led.ram)
  IN IF commitOk
     THEN [ok |-> TRUE, led |-> [led EXCEPT !.ram = ram, !.flash = ram]]
     ELSE [ok |-> FALSE, led |-> [led EXCEPT !.ram = ram]]

clearFirmwareRecord(led0, commitOk) ==
  LET led == initEEPROM(led0)
      ram == WriteClear(led.ram)
  IN IF commitOk
     THEN [ok |-> TRUE,
           led |-> [init |-> TRUE, last |-> EmptyStr,
                    ram |-> ram, flash |-> ram]]
     ELSE [ok |-> FALSE, led |-> [led EXCEPT !.ram = ram]]

(***************************************************************************)
(* followRedirects.  A chain is the sequence of responses the servers give *)
(* hop after hop, each [code, location]; a chain that is used up repeats   *)
(* its last response (a redirect loop).                                    *)
(***************************************************************************)
IsRedirect(code) == code = 301 \/ code = 302 \/ code = 307 \/ code = 308

Hop(chain, n) == chain[IF n <= Len(chain) THEN n ELSE Len(chain)]

RECURSIVE followRedirectsFrom(_, _)
followRedirectsFrom(chain, redirectCount) ==
  IF redirectCount < maxRedirects
  THEN LET r == Hop(chain, redirectCount + 1)
       IN IF IsRedirect(r.code)
          THEN IF ~r.location THEN r.code
               ELSE followRedirectsFrom(chain, redirectCount + 1)
          ELSE r.code
  ELSE -1

followRedirects(chain) == followRedirectsFrom(chain, 0)

(***************************************************************************)
(* hasUpdate.  A fetch is [chain, json, updater]: the responses to the     *)
(* manifest request, whether the payload of the final response parses, and *)
(* the entries of its "updater" array (none when it is missing or not an   *)
(* array), each [version, url, force] with the defaults "" / "" / false    *)
(* already applied.                                                        *)
(***************************************************************************)
\* The test that skips a forced entry: same firmware as the last installed.
\* Variant of SkipForced without the test for an empty filename.
SkipForcedNoEmptyCheck(filename, last) == filename = last

SkipForced(filename, last) == filename # EmptyStr /\ filename = last

Decision(config, forced) ==
  [available |-> TRUE, force |-> forced, version |-> config.version,
   url |-> config.url, filename |-> extractFilename(config.url)]

\* The loop over the entries, from entry i on: [ret, info].
RECURSIVE EvalEntries(_, _, _, _, _)
EvalEntries(configs, i, cur, last, info) ==
  IF i > Len(configs)
  THEN [ret |-> FALSE,
        info |-> [info EXCEPT !.available = FALSE, !.force = FALSE]]
  ELSE LET config == configs[i]
           filename == extractFilename(config.url)
       IN IF config.force
          THEN IF SkipForced(filename, last)
               THEN EvalEntries(configs, i + 1, cur, last, info)
               ELSE [ret |-> TRUE, info |-> Decision(config, TRUE)]
          ELSE IF StrGreater(config.version, cur)
               THEN [ret |-> TRUE, info |-> Decision(config, FALSE)]
               ELSE EvalEntries(configs, i + 1, cur, last, info)

\* Variant of hasUpdate that answers from the cache when the fetch fails.
hasUpdateStaleOnError(led0, info, cur, fetch) ==
  LET led == initEEPROM(led0)
      httpCode == followRedirects(fetch.chain)
  IN IF httpCode # 200 \/ fetch.json # "ok"
     THEN [ret |-> info.available, info |-> info, led |-> led]
     ELSE LET r == EvalEntries(fetch.updater, 1, cur, led.last, info)
          IN [ret |-> r.ret, info |-> r.info, led |-> led]

\* Variant of hasUpdate that clears the record when nothing is offered.
hasUpdateClearingRecord(led0, info, cur, fetch) ==
  LET led == initEEPROM(led0)
      httpCode == followRedirects(fetch.chain)
  IN IF httpCode # 200
     THEN [ret |-> FALSE, info |-> info, led |-> led]
     ELSE IF fetch.json # "ok"
     THEN [ret |-> FALSE, info |-> info, led |-> led]
     ELSE LET r == EvalEntries(fetch.updater, 1, cur, led.last, info)
          IN [ret |-> r.ret, info |-> r.info,
              led |-> IF r.ret THEN led
                      ELSE clearFirmwareRecord(led, TRUE).led]

\* hasUpdate: [ret, info, led].
hasUpdate(led0, info, cur, fetch) ==
  LET led == initEEPROM(led0)
      httpCode == followRedirects(fetch.chain)
  IN IF httpCode # 200
     THEN [ret |-> FALSE, info |-> info, led |-> led]
     ELSE IF fetch.json # "ok"
     THEN [ret |-> FALSE, info |-> info, led |-> led]
     ELSE LET r == EvalEntries(fetch.updater, 1, cur, led.last, info)
          IN [ret |-> r.ret, info |-> r.info, led |-> led]

(***************************************************************************)
(* doUpdate: the checks before the streaming loop, and the percentage.     *)
(***************************************************************************)
\* The outcome of doUpdate before its loop: -3 (download failed, or invalid
\* content length), -4 (Update.begin refused), 0 when the loop is entered.
\* Variant of DownloadOutcome that ignores the result of Update.begin.
DownloadOutcomeNoBeginCheck(httpCode, contentLength, beginOk) ==
  IF httpCode # 200 THEN -3
  ELSE IF contentLength <= 0 THEN -3
  ELSE 0

DownloadOutcome(httpCode, contentLength, beginOk) ==
  IF httpCode # 200 THEN -3
  ELSE IF contentLength <= 0 THEN -3
  ELSE IF ~beginOk THEN -4
  ELSE 0

\* Variant of Min for a read that takes no byte.
MinNone(a, b) == 0

Min(a, b) == IF a < b THEN a ELSE b

\* percent = (written * 100) / contentLength, in int; the product stays
\* below 2^31 for every length of this model.
Percent(written, contentLength) == (written * 100) \div contentLength

\* The greatest int.
IntMax == 2147483647

\* written * 100 in two's complement 32-bit arithmetic, from the 16-bit
\* halves of written.
WrapTimes100(written) ==
  LET low == (written % 65536) * 100
      lo16 == low % 65536
      hi16 == ((written \div 65536) * 100 + low \div 65536) % 65536
  IN IF hi16 >= 32768 THEN (hi16 - 65536) * 65536 + lo16
     ELSE hi16 * 65536 + lo16

\* The int division n / d for d > 0: the quotient truncated towards zero.
IntDiv(n, d) ==
  IF n >= 0 THEN n \div d
  ELSE - ((- (n + 1)) \div d) - (IF (- (n + 1)) % d = d - 1 THEN 1 ELSE 0)

\* floor(written * 100 / contentLength), computed without the product.
ExactPercent(written, contentLength) ==
  IF written <= IntMax \div 100 THEN Percent(written, contentLength)
  ELSE LET r == written % contentLength
           AtLeast(p) == p * (contentLength \div 100)
                           + (p * (contentLength % 100) + 99) \div 100
       IN 100 * (written \div contentLength)
            + Cardinality({p \in 1..99 : AtLeast(p) <= r})

\* The values that `(written * 100) / contentLength` can have: the int
\* quotient when the product is an int; when it is not (signed overflow,
\* undefined), the quotient of the wrapped product, or the exact quotient
\* of an evaluation in a wider type.
PercentOutcomes(written, contentLength) ==
  IF written <= IntMax \div 100 THEN {Percent(written, contentLength)}
  ELSE {IntDiv(WrapTimes100(written), contentLength),
        ExactPercent(written, contentLength)}

\* Whether the loop body reports the progress: percent != lastPercent.
\* Variant of PercentChanged that reports after every chunk.
PercentChangedAlways(percent, lastPercent) == TRUE

PercentChanged(percent, lastPercent) == percent # lastPercent

(***************************************************************************)
(* canRollback, on the partitions the platform reports.                    *)
(***************************************************************************)
\* Variant of canRollback without the last-invalid comparison.
canRollbackIgnoringInvalid(next_partition, last_invalid) ==
  next_partition # NULL

canRollback(next_partition, last_invalid) ==
  IF next_partition = NULL THEN FALSE
  ELSE next_partition # last_invalid

NoBootReq == [target |-> NULL, ok |-> FALSE]

\* rollback: [ret, req, restart], req the request made to
\* esp_ota_set_boot_partition (its target, and setOk, the platform's answer).
\* Variant of rollback without the canRollback() test.
rollbackNoRecheck(next_partition, last_invalid, setOk) ==
  IF next_partition = NULL
  THEN [ret |-> -1, req |-> NoBootReq, restart |-> FALSE]
  ELSE IF ~setOk
  THEN [ret |-> -2, req |-> [target |-> next_partition, ok |-> FALSE],
        restart |-> FALSE]
  ELSE [ret |-> 1, req |-> [target |-> next_partition, ok |-> TRUE],
        restart |-> TRUE]

rollback(next_partition, last_invalid, setOk) ==
  IF ~canRollback(next_partition, last_invalid)
  THEN [ret |-> 0, req |-> NoBootReq, restart |-> FALSE]
  ELSE IF next_partition = NULL
  THEN [ret |-> -1, req |-> NoBootReq, restart |-> FALSE]
  ELSE IF ~setOk
  THEN [ret |-> -2, req |-> [target |-> next_partition, ok |-> FALSE],
        restart |-> FALSE]
  ELSE [ret |-> 1, req |-> [target |-> next_partition, ok |-> TRUE],
        restart |-> TRUE]

\* Variant of markAsValid without the test for ESP_OTA_IMG_PENDING_VERIFY.
markAsValidAnyState(ota_state, readOk, markOk) ==
  IF readOk
  THEN IF markOk
       THEN [ret |-> TRUE, req |-> TRUE, state |-> "VALID"]
       ELSE [ret |-> FALSE, req |-> TRUE, state |-> ota_state]
  ELSE [ret |-> FALSE, req |-> FALSE, state |-> ota_state]

\* Variant of markAsValid that does not look at the platform's answer.
markAsValidIgnoringError(ota_state, readOk, markOk) ==
  IF readOk /\ ota_state = "PENDING_VERIFY"
  THEN [ret |-> TRUE, req |-> TRUE,
        state |-> IF markOk THEN "VALID" ELSE ota_state]
  ELSE [ret |-> FALSE, req |-> FALSE, state |-> ota_state]

\* markAsValid: [ret, req, state], req whether
\* esp_ota_mark_app_valid_cancel_rollback was called.  readOk is whether
\* esp_ota_get_state_partition gave ESP_OK, markOk the platform's answer.
markAsValid(ota_state, readOk, markOk) ==
  IF readOk /\ ota_state = "PENDING_VERIFY"
  THEN IF markOk
       THEN [ret |-> TRUE, req |-> TRUE, state |-> "VALID"]
       ELSE [ret |-> FALSE, req |-> TRUE, state |-> ota_state]
  ELSE [ret |-> FALSE, req |-> FALSE, state |-> ota_state]

(***************************************************************************)
(* Inputs.                                                                 *)
(***************************************************************************)
V_0_9_0 == <<48, 46, 57, 46, 48>>
V_0_9_9 == <<48, 46, 57, 46, 57>>
V_1_0_0 == <<49, 46, 48, 46, 48>>
V_2_0_0 == <<50, 46, 48, 46, 48>>

\* "h/a", "h/b?x", "h/" (no filename) and "g/a" (another URL, same filename).
UrlA == <<104, 47, 97>>
UrlB == <<104, 47, 98, 63, 120>>
UrlDir == <<104, 47>>
UrlA2 == <<103, 47, 97>>

CurrentVersions == {V_1_0_0, V_0_9_0}

Entry(v, u, f) == [version |-> v, url |-> u, force |-> f]

Entries ==
  { Entry(V_1_0_0, UrlA, FALSE),
    Entry(V_0_9_9, UrlB, FALSE),
    Entry(V_2_0_0, EmptyStr, FALSE),
    Entry(V_0_9_0, UrlA, TRUE),
    Entry(V_2_0_0, UrlA2, TRUE),
    Entry(V_0_9_9, UrlDir, TRUE) }

RECURSIVE SeqsUpTo(_, _)
SeqsUpTo(S, n) ==
  IF n = 0 THEN {<< >>}
  ELSE LET shorter == SeqsUpTo(S, n - 1)
       IN shorter \cup {Append(q, x) : q \in shorter, x \in S}

Manifests == SeqsUpTo(Entries, MaxEntries)

R(code, location) == [code |-> code, location |-> location]

Chain200 == <<R(200, FALSE)>>

\* Chains that do not end in 200: a server error, and a redirect loop.
FailChains == {<<R(404, FALSE)>>, <<R(301, TRUE)>>}

\* 200 at once, and after one redirect.
OkChains == {Chain200, <<R(307, TRUE), R(200, FALSE)>>}

\* The responses to the manifest request, for a set of manifests.
Fetches(manifests) ==
  {[chain |-> c, json |-> "none", updater |-> << >>] : c \in FailChains}
  \cup {[chain |-> Chain200, json |-> "invalid", updater |-> << >>]}
  \cup {[chain |-> Chain200, json |-> "ok", updater |-> m] :
          m \in manifests}

\* The manifests of the update flow: none, and one entry of each kind.
FlowManifests ==
  { << >>,
    <<Entry(V_1_0_0, UrlA, FALSE)>>,
    <<Entry(V_2_0_0, EmptyStr, FALSE)>>,
    <<Entry(V_0_9_0, UrlA, TRUE)>>,
    <<Entry(V_0_9_9, UrlDir, TRUE)>> }

\* The responses to the firmware request: [chain, size, beginOk], size the
\* value of http.getSize() (-1 when unknown) and beginOk that of Update.begin.
Downloads(sizes) ==
  {[chain |-> c, size |-> -1, beginOk |-> FALSE] : c \in FailChains}
  \cup {[chain |-> Chain200, size |-> n, beginOk |-> FALSE] :
          n \in {-1, 0}}
  \cup {[chain |-> c, size |-> n, beginOk |-> TRUE] :
          c \in OkChains, n \in sizes}
  \cup {[chain |-> Chain200, size |-> n, beginOk |-> FALSE] : n \in sizes}

BlankImage == [a \in Addrs |-> 255]

NoFetch == [chain |-> Chain200, json |-> "none", updater |-> << >>]

NoInfo ==
  [available |-> FALSE, force |-> FALSE, version |-> EmptyStr,
   url |-> EmptyStr, filename |-> EmptyStr]

NoCheck == [called |-> FALSE, fetch |-> NoFetch, ret |-> FALSE,
            last |-> EmptyStr]

\* The firmware request of doUpdate: the final response code, the content
\* length read from it, and whether Update.begin was called and succeeded.
NoDownload == [called |-> FALSE, code |-> 0, size |-> 0, begun |-> FALSE]

\* The platform's Update object: whether a write session is open, the bytes
\* passed to Update.write, and the call of Update.end (with how many bytes
\* written, and its result); dropped: the loop was left on a disconnect.
NoSession == [begun |-> FALSE, bytes |-> 0, endCalled |-> FALSE,
              endAt |-> 0, finalized |-> FALSE, dropped |-> FALSE]

NoInstall == [phase |-> "none", url |-> EmptyStr]

\* A followRedirects call in progress or returned: the responses the
\* server gives, redirectCount, the requests made and the value returned.
NoResolve == [state |-> "none", chain |-> << >>, redirectCount |-> 0,
              requests |-> 0, code |-> 0]

\* The clock and the periodic check: millis(), _checkInterval, _lastCheck,
\* and of the loop() call made last (called) whether it invoked
\* checkUpdate() (fired) and the value of millis() - _lastCheck it saw.
\* The three unsigned long values are held as the int with the same 32
\* bits (2^32 - 1 is -1); since counts the milliseconds that have passed
\* since the check fired last, -1 before the first.
NoTimer == [now |-> 0, interval |-> 0, lastCheck |-> 0, called |-> FALSE,
            fired |-> FALSE, elapsed |-> 0, since |-> -1]

\* A call of saveFilenameToEEPROM or clearFirmwareRecord: its argument, and
\* the committed image, _lastInstalledFilename and _eepromInitialized
\* before it.
NoLedgerCall == [kind |-> "none", arg |-> EmptyStr, flash |-> BlankImage,
                 last |-> EmptyStr, init |-> FALSE]

(***************************************************************************)
(* State.                                                                  *)
(***************************************************************************)
VARIABLES
  currentVersion,          \* _currentVersion
  eepromInitialized,       \* _eepromInitialized
  lastInstalledFilename,   \* _lastInstalledFilename
  eepromRam,               \* the EEPROM library's RAM buffer
  eepromFlash,             \* the committed EEPROM image
  updateInfo,              \* _updateInfo
  progressCallback,        \* whether _progressCallback is set
  pc,                      \* "idle", "streaming", "finalize", "restarted"
  url,                     \* doUpdate's argument
  contentLength,           \* doUpdate's locals
  written,
  lastPercent,
  op,                      \* the public operation called last
  ret,                     \* its return value, once it has returned
  check,                   \* the hasUpdate call of that operation
  download,                \* the firmware request of that operation
  session,                 \* the platform's Update session
  emitted,                 \* the percents passed to the progress callback
  saved,                   \* what doUpdate's ledger save came to
  install,                 \* the forced image last installed
  ledgerCall,              \* the ledger save or clear made last
  timer,                   \* millis(), _checkInterval, _lastCheck
  resolve,                 \* a followRedirects call, request by request
  nextPartition,           \* esp_ota_get_next_update_partition(NULL)
  lastInvalid,             \* esp_ota_get_last_invalid_partition()
  bootPartition,           \* the partition the platform boots next
  bootReq,                 \* the target of rollback's set-boot request
  otaState,                \* the running image's verification state
  validReq,                \* whether markAsValid asked the platform
  markLog                  \* the markAsValid calls made in succession

ledgerVars == <<eepromInitialized, lastInstalledFilename, eepromRam,
                eepromFlash>>

transferVars == <<url, contentLength, written, lastPercent, download,
                  session, emitted, saved>>

partitionVars == <<nextPartition, lastInvalid, bootPartition, bootReq,
                   otaState, validReq, markLog>>

vars == <<currentVersion, timer, resolve, ledgerVars, updateInfo, progressCallback, pc,
          transferVars, op, ret, check, install, ledgerCall, partitionVars>>

Led == [init |-> eepromInitialized, last |-> lastInstalledFilename,
        ram |-> eepromRam, flash |-> eepromFlash]

SetLed(led) ==
  /\ eepromInitialized' = led.init
  /\ lastInstalledFilename' = led.last
  /\ eepromRam' = led.ram
  /\ eepromFlash' = led.flash

Partitions == {"ota_0", "ota_1"}

OtaStates == {"NEW", "PENDING_VERIFY", "VALID", "INVALID", "ABORTED",
              "UNDEFINED"}

(***************************************************************************)
(* Initial state: a freshly constructed OTAClient; in Init, on a device     *)
(* whose EEPROM holds no record.                                           *)
(***************************************************************************)
NoTransferState ==
  /\ url = EmptyStr
  /\ contentLength = 0
  /\ written = 0
  /\ lastPercent = -1
  /\ download = NoDownload
  /\ session = NoSession
  /\ emitted = << >>
  /\ saved = "none"

ClientConstructed ==
  /\ eepromInitialized = FALSE
  /\ lastInstalledFilename = EmptyStr
  /\ eepromRam = BlankImage
  /\ updateInfo = NoInfo
  /\ progressCallback = FALSE
  /\ pc = "idle"
  /\ NoTransferState
  /\ op = "none"
  /\ ret = 0
  /\ check = NoCheck
  /\ install = NoInstall
  /\ ledgerCall = NoLedgerCall
  /\ resolve = NoResolve

\* The client constructed at boot, when millis() is 0.
ClientInit ==
  /\ ClientConstructed
  /\ timer = NoTimer

PlatformFixed ==
  /\ nextPartition = "ota_1"
  /\ lastInvalid = NULL
  /\ bootPartition = "ota_0"
  /\ bootReq = NoBootReq
  /\ otaState = "VALID"
  /\ validReq = FALSE
  /\ markLog = << >>

Init ==
  /\ currentVersion \in CurrentVersions
  /\ eepromFlash = BlankImage
  /\ ClientInit
  /\ PlatformFixed

(***************************************************************************)
(* Steps of the public operations.  The variables url .. saved hold the    *)
(* locals and the platform session of the doUpdate call of the operation   *)
(* called last, check holds its hasUpdate call; an operation that makes no *)
(* such call leaves them at their defaults.                                *)
(***************************************************************************)
NoTransfer ==
  /\ url' = EmptyStr
  /\ contentLength' = 0
  /\ written' = 0
  /\ lastPercent' = -1
  /\ download' = NoDownload
  /\ session' = NoSession
  /\ emitted' = << >>
  /\ saved' = "none"

\* install follows the first hasUpdate after the restart into a forced image.
InstallAfterCheck ==
  IF install.phase = "booted" THEN [install EXCEPT !.phase = "checked"]
  ELSE IF install.phase = "checked" THEN NoInstall
  ELSE install

InstallAfterOther ==
  IF install.phase = "checked" THEN NoInstall ELSE install

\* The call of doUpdate(u) up to its loop.  A request for the empty URL
\* gets no 200 response.
DoUpdateStep(u, resp) ==
  \E httpCode \in {followRedirects(resp.chain)} :
   (u = EmptyStr => httpCode # 200) /\
    \E size \in {IF httpCode = 200 THEN resp.size ELSE 0} :
      \E out \in {DownloadOutcome(httpCode, size, resp.beginOk)} :
        /\ url' = u
        /\ contentLength' = size
        /\ written' = 0
        /\ lastPercent' = -1
        /\ emitted' = << >>
        /\ saved' = "none"
        /\ download' = [called |-> TRUE, code |-> httpCode, size |-> size,
                        begun |-> (httpCode = 200 /\ size > 0
                                   /\ resp.beginOk)]
        /\ session' = [NoSession EXCEPT
                         !.begun = (httpCode = 200 /\ size > 0
                                    /\ resp.beginOk)]
        /\ pc' = IF out = 0 THEN "streaming" ELSE "idle"
        /\ ret' = out

\* hasUpdate on the cache info0, and doUpdate of the decision's url when it
\* returns true: the body of checkUpdate.
CheckUpdateFrom(info0, fetch, downloads) ==
  \E r \in {hasUpdate(Led, info0, currentVersion, fetch)} :
    /\ SetLed(r.led)
    /\ updateInfo' = r.info
    /\ check' = [called |-> TRUE, fetch |-> fetch, ret |-> r.ret,
                 last |-> r.led.last]
    /\ install' = InstallAfterCheck
    /\ IF r.ret
       THEN \E resp \in downloads : DoUpdateStep(r.info.url, resp)
       ELSE /\ ret' = 0
            /\ NoTransfer
            /\ UNCHANGED pc
    /\ ledgerCall' = NoLedgerCall
    /\ UNCHANGED <<currentVersion, progressCallback, partitionVars>>

(***************************************************************************)
(* The public operations.                                                  *)
(***************************************************************************)
HasUpdate(fetch) ==
  /\ pc = "idle"
  /\ op' = "hasUpdate"
  /\ \E r \in {hasUpdate(Led, updateInfo, currentVersion, fetch)} :
       /\ SetLed(r.led)
       /\ updateInfo' = r.info
       /\ check' = [called |-> TRUE, fetch |-> fetch, ret |-> r.ret,
                    last |-> r.led.last]
       /\ ret' = IF r.ret THEN 1 ELSE 0
  /\ install' = InstallAfterCheck
  /\ NoTransfer
  /\ ledgerCall' = NoLedgerCall
  /\ UNCHANGED <<currentVersion, timer, resolve, progressCallback, pc, partitionVars>>

CheckUpdate(fetch, downloads) ==
  /\ pc = "idle"
  /\ op' = "checkUpdate"
  /\ CheckUpdateFrom(updateInfo, fetch, downloads)
  /\ UNCHANGED <<timer, resolve>>

ForceUpdate(fetch, downloads) ==
  /\ pc = "idle"
  /\ op' = "forceUpdate"
  /\ CheckUpdateFrom([updateInfo EXCEPT !.available = FALSE], fetch, downloads)
  /\ UNCHANGED <<timer, resolve>>

\* update() with a usable cache: doUpdate of the cached url, no evaluation.
UpdateCached(resp) ==
  /\ pc = "idle"
  /\ updateInfo.available /\ updateInfo.url # EmptyStr
  /\ op' = "update"
  /\ DoUpdateStep(updateInfo.url, resp)
  /\ check' = NoCheck
  /\ install' = InstallAfterOther
  /\ ledgerCall' = NoLedgerCall
  /\ UNCHANGED <<ledgerVars, updateInfo, currentVersion, timer, resolve, progressCallback,
                 partitionVars>>

\* Variant of UpdateChecked that does not look at the cache.
UpdateAlwaysChecked(fetch, downloads) ==
  /\ pc = "idle"
  /\ op' = "update"
  /\ CheckUpdateFrom(updateInfo, fetch, downloads)
  /\ UNCHANGED <<timer, resolve>>

\* update() without one: as checkUpdate, and 0 when there is no update.
UpdateChecked(fetch, downloads) ==
  /\ pc = "idle"
  /\ ~(updateInfo.available /\ updateInfo.url # EmptyStr)
  /\ op' = "update"
  /\ CheckUpdateFrom(updateInfo, fetch, downloads)
  /\ UNCHANGED <<timer, resolve>>

DoUpdate(u, resp) ==
  /\ pc = "idle"
  /\ op' = "doUpdate"
  /\ DoUpdateStep(u, resp)
  /\ check' = NoCheck
  /\ install' = InstallAfterOther
  /\ ledgerCall' = NoLedgerCall
  /\ UNCHANGED <<ledgerVars, updateInfo, currentVersion, timer, resolve, progressCallback,
                 partitionVars>>

OnProgress ==
  /\ pc = "idle"
  /\ ~progressCallback
  /\ progressCallback' = TRUE
  /\ UNCHANGED <<currentVersion, timer, resolve, ledgerVars, updateInfo, pc, transferVars,
                 op, ret, check, install, ledgerCall, partitionVars>>

ClearFirmwareRecord(commitOk) ==
  /\ pc = "idle"
  /\ op' = "clearFirmwareRecord"
  /\ \E r \in {clearFirmwareRecord(Led, commitOk)} :
       /\ SetLed(r.led)
       /\ ret' = IF r.ok THEN 1 ELSE 0
  /\ ledgerCall' = [kind |-> "clear", arg |-> EmptyStr,
                    flash |-> eepromFlash, last |-> lastInstalledFilename,
                    init |-> eepromInitialized]
  /\ check' = NoCheck
  /\ install' = NoInstall
  /\ NoTransfer
  /\ UNCHANGED <<currentVersion, timer, resolve, updateInfo, progressCallback, pc,
                 partitionVars>>

(***************************************************************************)
(* The streaming loop of doUpdate, one iteration per step, and what        *)
(* follows it.                                                             *)
(***************************************************************************)
\* An iteration that finds avail > 0 bytes: read, write, count, report.
StreamRead(avail) ==
  /\ pc = "streaming"
  /\ written < contentLength
  /\ avail > 0
  /\ \E len \in {Min(avail, BuffSize)} :
       \E percent \in PercentOutcomes(written + len, contentLength) :
         \E changed \in {PercentChanged(percent, lastPercent)} :
           /\ written' = written + len
           /\ session' = [session EXCEPT !.bytes = @ + len]
           /\ lastPercent' = IF changed THEN percent ELSE lastPercent
           /\ emitted' = IF changed /\ progressCallback
                         THEN Append(emitted, percent) ELSE emitted
           /\ pc' = IF written + len < contentLength
                    THEN "streaming" ELSE "finalize"
  /\ UNCHANGED <<currentVersion, timer, resolve, ledgerVars, updateInfo, progressCallback,
                 url, contentLength, download, saved, op, ret, check,
                 install, ledgerCall, partitionVars>>

\* An iteration that finds no byte available: delay(1) only.
StreamWait ==
  /\ pc = "streaming"
  /\ UNCHANGED vars

\* http.connected() is false at the loop test: the loop is left early.
StreamDrop ==
  /\ pc = "streaming"
  /\ pc' = "finalize"
  /\ session' = [session EXCEPT !.dropped = TRUE]
  /\ UNCHANGED <<currentVersion, timer, resolve, ledgerVars, updateInfo, progressCallback,
                 url, contentLength, written, lastPercent, download,
                 emitted, saved, op, ret, check, install, ledgerCall,
                 partitionVars>>

\* Whether the image being installed is the forced entry of the cached
\* decision, received in full.
ForcedInstall ==
  /\ op \in {"checkUpdate", "forceUpdate", "update"}
  /\ updateInfo.force
  /\ updateInfo.url = url
  /\ written = contentLength

\* What a call of saveFilenameToEEPROM came to.
SaveOutcome(ok, filename) ==
  IF ok THEN "committed"
  ELSE IF FilenameTooLong(filename) THEN "tooLong" ELSE "commitFailed"

\* The record of a call of saveFilenameToEEPROM(filename) made now.
SaveCall(filename) ==
  [kind |-> "save", arg |-> filename, flash |-> eepromFlash,
   last |-> lastInstalledFilename, init |-> eepromInitialized]

\* After the loop: http.end(), Update.end(true), and on success the save of
\* the filename and the restart.  endOk is the result of Update.end(true),
\* commitOk that of EEPROM.commit().
Finish(endOk, commitOk) ==
  /\ pc = "finalize"
  /\ session' = [session EXCEPT !.endCalled = TRUE, !.endAt = written,
                                !.finalized = endOk]
  /\ IF endOk
     THEN /\ \E filename \in {IF updateInfo.filename # EmptyStr
                              THEN updateInfo.filename
                              ELSE extractFilename(url)} :
               IF filename # EmptyStr
               THEN \E r \in {saveFilenameToEEPROM(Led, filename, commitOk)} :
                      /\ SetLed(r.led)
                      /\ saved' = SaveOutcome(r.ok, filename)
                      /\ ledgerCall' = SaveCall(filename)
               ELSE /\ UNCHANGED <<ledgerVars, ledgerCall>>
                    /\ saved' = "skipped"
          /\ pc' = "restarted"
          /\ ret' = 1
          /\ install' = IF ForcedInstall
                        THEN [phase |-> "restart", url |-> url]
                        ELSE NoInstall
     ELSE /\ pc' = "idle"
          /\ ret' = -5
          /\ UNCHANGED <<ledgerVars, saved, install, ledgerCall>>
  /\ UNCHANGED <<currentVersion, timer, resolve, updateInfo, progressCallback, url,
                 contentLength, written, lastPercent, download, emitted,
                 op, check, partitionVars>>

\* ESP.restart(): the device boots and the sketch constructs a new
\* OTAClient; only the committed EEPROM image survives.  The version string
\* is the one the booted image passes to the constructor.
Reboot ==
  /\ pc = "restarted"
  /\ currentVersion' \in CurrentVersions
  /\ timer' = NoTimer
  /\ resolve' = NoResolve
  /\ eepromInitialized' = FALSE
  /\ lastInstalledFilename' = EmptyStr
  /\ eepromRam' = BlankImage
  /\ UNCHANGED eepromFlash
  /\ updateInfo' = NoInfo
  /\ progressCallback' = FALSE
  /\ pc' = "idle"
  /\ NoTransfer
  /\ op' = "boot"
  /\ ret' = 0
  /\ check' = NoCheck
  /\ install' = IF install.phase = "restart"
                THEN [install EXCEPT !.phase = "booted"] ELSE install
  /\ ledgerCall' = NoLedgerCall
  /\ UNCHANGED partitionVars

(***************************************************************************)
(* The specification of the update flow.                                   *)
(***************************************************************************)
MainSizes == {1000}
DirectUrls == {UrlB}
MainAvails == {488, 512}
MainFetches == Fetches(FlowManifests)
MainDownloads ==
  {[chain |-> c, size |-> -1, beginOk |-> FALSE] : c \in FailChains}
  \cup {[chain |-> Chain200, size |-> 0, beginOk |-> FALSE]}
  \cup {[chain |-> Chain200, size |-> n, beginOk |-> b] :
          n \in MainSizes, b \in BOOLEAN}

Next ==
  \/ \E fetch \in MainFetches : HasUpdate(fetch)
  \/ \E fetch \in MainFetches : CheckUpdate(fetch, MainDownloads)
  \/ \E fetch \in MainFetches : ForceUpdate(fetch, MainDownloads)
  \/ \E resp \in MainDownloads : UpdateCached(resp)
  \/ \E fetch \in MainFetches : UpdateChecked(fetch, MainDownloads)
  \/ \E u \in DirectUrls, resp \in MainDownloads : DoUpdate(u, resp)
  \/ \E commitOk \in BOOLEAN : ClearFirmwareRecord(commitOk)
  \/ \E avail \in MainAvails : StreamRead(avail)
  \/ StreamWait
  \/ StreamDrop
  \/ \E endOk \in BOOLEAN, commitOk \in BOOLEAN : Finish(endOk, commitOk)
  \/ Reboot

Spec == Init /\ [][Next]_vars

(***************************************************************************)
(* The specification of the manifest evaluation: hasUpdate on every        *)
(* manifest of at most MaxEntries entries, on a device whose EEPROM holds  *)
(* no record or the record of an earlier installation.                     *)
(***************************************************************************)
FilenameA == <<97>>
FilenameB == <<98>>

InitEval ==
  /\ currentVersion \in CurrentVersions
  /\ eepromFlash \in {BlankImage, WriteRecord(BlankImage, FilenameA),
                      WriteRecord(BlankImage, FilenameB)}
  /\ ClientInit
  /\ PlatformFixed

EvalFetches == Fetches(Manifests)

NextEval ==
  \/ \E fetch \in EvalFetches : HasUpdate(fetch)
  \/ \E commitOk \in BOOLEAN : ClearFirmwareRecord(commitOk)

SpecEval == InitEval /\ [][NextEval]_vars

(***************************************************************************)
(* The specification of the transfer: doUpdate alone, on streams that      *)
(* deliver the body in small and in large chunks.                          *)
(***************************************************************************)
TransferSizes == {10, 1000}
TransferAvails == {7, 512, 700}

NextTransfer ==
  \/ OnProgress
  \/ \E resp \in Downloads(TransferSizes) : DoUpdate(UrlA, resp)
  \/ \E avail \in TransferAvails : StreamRead(avail)
  \/ StreamWait
  \/ StreamDrop
  \/ \E endOk \in BOOLEAN, commitOk \in BOOLEAN : Finish(endOk, commitOk)
  \/ Reboot

SpecTransfer == Init /\ [][NextTransfer]_vars

\* The transfer on a connection that, while the loop runs, in the end
\* delivers bytes or is reported disconnected; the code after the loop runs.
SpecTransferFair ==
  /\ SpecTransfer
  /\ WF_vars(StreamDrop \/ \E avail \in TransferAvails : StreamRead(avail))
  /\ WF_vars(\E endOk \in BOOLEAN, commitOk \in BOOLEAN :
               Finish(endOk, commitOk))

(***************************************************************************)
(* The specification of the rollback operations.  The partitions belong to *)
(* the platform: what it reports is any value at boot, and it changes      *)
(* between boots only through the requests of rollback and markAsValid.    *)
(***************************************************************************)
InitPartition ==
  /\ currentVersion = V_1_0_0
  /\ eepromFlash = BlankImage
  /\ ClientInit
  /\ nextPartition \in Partitions \cup {NULL}
  /\ lastInvalid \in Partitions \cup {NULL}
  /\ bootPartition \in Partitions
  /\ bootReq = NoBootReq
  /\ otaState \in OtaStates
  /\ validReq = FALSE
  /\ markLog = << >>

clientVars == <<currentVersion, timer, resolve, ledgerVars, updateInfo, progressCallback,
                transferVars, check, install, ledgerCall>>

CanRollback ==
  /\ pc = "idle"
  /\ op' = "canRollback"
  /\ ret' = IF canRollback(nextPartition, lastInvalid) THEN 1 ELSE 0
  /\ bootReq' = NoBootReq
  /\ validReq' = FALSE
  /\ markLog' = << >>
  /\ UNCHANGED <<clientVars, pc, nextPartition, lastInvalid, bootPartition,
                 otaState>>

Rollback(setOk) ==
  /\ pc = "idle"
  /\ op' = "rollback"
  /\ \E r \in {rollback(nextPartition, lastInvalid, setOk)} :
       /\ ret' = r.ret
       /\ bootReq' = r.req
       /\ bootPartition' = IF r.req.ok THEN r.req.target ELSE bootPartition
       /\ pc' = IF r.restart THEN "restarted" ELSE "idle"
  /\ validReq' = FALSE
  /\ markLog' = << >>
  /\ UNCHANGED <<clientVars, nextPartition, lastInvalid, otaState>>

\* The last two entries of a log.
LastTwo(log) == IF Len(log) > 2 THEN SubSeq(log, Len(log) - 1, Len(log))
                ELSE log

MarkAsValid(readOk, markOk) ==
  /\ pc = "idle"
  /\ op' = "markAsValid"
  /\ \E r \in {markAsValid(otaState, readOk, markOk)} :
       /\ ret' = IF r.ret THEN 1 ELSE 0
       /\ validReq' = r.req
       /\ otaState' = r.state
       /\ markLog' = LastTwo(Append(markLog,
                        [before |-> otaState, readOk |-> readOk,
                         ret |-> r.ret, req |-> r.req, after |-> r.state,
                         boot |-> bootPartition]))
  /\ bootReq' = NoBootReq
  /\ UNCHANGED <<clientVars, pc, nextPartition, lastInvalid, bootPartition>>

\* ESP.restart() after rollback: the platform boots and reports its
\* partitions anew.
PartitionReboot ==
  /\ pc = "restarted"
  /\ pc' = "idle"
  /\ op' = "boot"
  /\ ret' = 0
  /\ bootReq' = NoBootReq
  /\ validReq' = FALSE
  /\ markLog' = << >>
  /\ nextPartition' \in Partitions \cup {NULL}
  /\ lastInvalid' \in Partitions \cup {NULL}
  /\ otaState' \in OtaStates
  /\ UNCHANGED <<clientVars, bootPartition>>

NextPartition ==
  \/ CanRollback
  \/ \E setOk \in BOOLEAN : Rollback(setOk)
  \/ \E readOk \in BOOLEAN, markOk \in BOOLEAN : MarkAsValid(readOk, markOk)
  \/ PartitionReboot

SpecPartition == InitPartition /\ [][NextPartition]_vars

(***************************************************************************)
(* The specification of the ledger: saves, clears and loads of the record  *)
(* over restarts and losses of power.  saved and ledgerCall keep what the  *)
(* last save or clear was and came to, across restarts.                    *)
(***************************************************************************)
Name(n, c) == [i \in 1..n |-> c]

\* Filenames of 1, 2, 124, 125 and 126 characters.
LedgerNames == {<<97>>, <<98, 255>>, Name(OTA_EEPROM_SIZE - 4, 99),
                Name(OTA_EEPROM_SIZE - 3, 100), Name(OTA_EEPROM_SIZE - 2, 101)}

\* The ledger of the client constructed after a restart: nothing of the
\* RAM buffer or of the members survives, the committed image does.
PowerLoss(led) ==
  [init |-> FALSE, last |-> EmptyStr, ram |-> BlankImage,
   flash |-> led.flash]

\* The filename initEEPROM loads from a committed image after a restart.
LoadOf(flash) ==
  initEEPROM([init |-> FALSE, last |-> EmptyStr, ram |-> BlankImage,
              flash |-> flash]).last

\* The number of EEPROM.put/EEPROM.write calls of saveFilenameToEEPROM.
SaveWrites(filename) == 2 + Len(filename)

\* The byte array after the first n of them.
WritePrefix(bytes, filename, n) ==
  [a \in Addrs |->
     IF n >= 1 /\ a = OTA_EEPROM_START_ADDR THEN OTA_EEPROM_MAGIC % 256
     ELSE IF n >= 1 /\ a = OTA_EEPROM_START_ADDR + 1
          THEN OTA_EEPROM_MAGIC \div 256
     ELSE IF n >= 2 /\ a = OTA_EEPROM_START_ADDR + 2 THEN Len(filename) % 256
     ELSE IF a - (OTA_EEPROM_START_ADDR + 3) \in 0..(Min(n - 2, Len(filename)) - 1)
          THEN filename[a - (OTA_EEPROM_START_ADDR + 3) + 1] % 256
     ELSE bytes[a]]

\* The byte array after the first n of the two writes of
\* clearFirmwareRecord.
ClearPrefix(bytes, n) ==
  [a \in Addrs |->
     IF n >= 1 /\ a = OTA_EEPROM_START_ADDR THEN 0
     ELSE IF n >= 2 /\ a = OTA_EEPROM_START_ADDR + 1 THEN 0
     ELSE bytes[a]]

\* Variant of interruptedSave in which every write reaches the flash.
interruptedSaveWriteThrough(led0, filename, n, committed) ==
  LET led == initEEPROM(led0)
      ram == WritePrefix(led.ram, filename, n)
  IN PowerLoss([led EXCEPT !.flash = ram])

\* saveFilenameToEEPROM cut short by a loss of power after n of its writes:
\* the writes went to the RAM buffer, which is lost; when all were made and
\* the power went during EEPROM.commit(), committed says whether the commit
\* had taken effect.
interruptedSave(led0, filename, n, committed) ==
  LET led == initEEPROM(led0)
      ram == WritePrefix(led.ram, filename, n)
  IN PowerLoss([led EXCEPT
                  !.flash = IF n = SaveWrites(filename) /\ committed
                            THEN ram ELSE led.flash])

\* clearFirmwareRecord cut short in the same way.
interruptedClear(led0, n, committed) ==
  LET led == initEEPROM(led0)
      ram == ClearPrefix(led.ram, n)
  IN PowerLoss([led EXCEPT
                  !.flash = IF n = 2 /\ committed THEN ram ELSE led.flash])

\* A call of saveFilenameToEEPROM(filename).
SaveFilename(filename, commitOk) ==
  /\ pc = "idle"
  /\ op' = "saveFilenameToEEPROM"
  /\ \E r \in {saveFilenameToEEPROM(Led, filename, commitOk)} :
       /\ SetLed(r.led)
       /\ ret' = IF r.ok THEN 1 ELSE 0
       /\ saved' = SaveOutcome(r.ok, filename)
  /\ ledgerCall' = SaveCall(filename)
  /\ UNCHANGED <<currentVersion, timer, resolve, updateInfo, progressCallback, pc, url,
                 contentLength, written, lastPercent, download, session,
                 emitted, check, install, partitionVars>>

\* The first call of initEEPROM after a boot; a later call returns at once.
LoadLedger ==
  /\ pc = "idle"
  /\ ~eepromInitialized
  /\ op' = "initEEPROM"
  /\ ret' = 0
  /\ SetLed(initEEPROM(Led))
  /\ UNCHANGED <<currentVersion, timer, resolve, updateInfo, progressCallback, pc,
                 transferVars, check, install, ledgerCall, partitionVars>>

\* A restart, or a loss of power, between two calls.
PowerCycle ==
  /\ pc = "idle"
  /\ op' = "boot"
  /\ ret' = 0
  /\ SetLed(PowerLoss(Led))
  /\ UNCHANGED <<currentVersion, timer, resolve, updateInfo, progressCallback, pc,
                 transferVars, check, install, ledgerCall, partitionVars>>

\* A loss of power within saveFilenameToEEPROM(filename), after its length
\* test and n of its writes, and the boot that follows.
SaveInterrupted(filename, n, committed) ==
  /\ pc = "idle"
  /\ ~FilenameTooLong(filename)
  /\ n \in 1..SaveWrites(filename)
  /\ op' = "boot"
  /\ ret' = 0
  /\ SetLed(interruptedSave(Led, filename, n, committed))
  /\ saved' = "interrupted"
  /\ ledgerCall' = SaveCall(filename)
  /\ UNCHANGED <<currentVersion, timer, resolve, updateInfo, progressCallback, pc, url,
                 contentLength, written, lastPercent, download, session,
                 emitted, check, install, partitionVars>>

\* A loss of power within clearFirmwareRecord, after n of its writes.
ClearInterrupted(n, committed) ==
  /\ pc = "idle"
  /\ op' = "boot"
  /\ ret' = 0
  /\ SetLed(interruptedClear(Led, n, committed))
  /\ saved' = "interrupted"
  /\ ledgerCall' = [kind |-> "clear", arg |-> EmptyStr,
                    flash |-> eepromFlash, last |-> lastInstalledFilename,
                    init |-> eepromInitialized]
  /\ UNCHANGED <<currentVersion, timer, resolve, updateInfo, progressCallback, pc, url,
                 contentLength, written, lastPercent, download, session,
                 emitted, check, install, partitionVars>>

InitLedger ==
  /\ currentVersion = V_1_0_0
  /\ eepromFlash = BlankImage
  /\ ClientInit
  /\ PlatformFixed

NextLedger ==
  \/ \E filename \in LedgerNames, commitOk \in BOOLEAN :
       SaveFilename(filename, commitOk)
  \/ \E commitOk \in BOOLEAN : ClearFirmwareRecord(commitOk)
  \/ LoadLedger
  \/ PowerCycle
  \/ \E filename \in LedgerNames, n \in {1, 2, 3, OTA_EEPROM_SIZE - 2},
        committed \in BOOLEAN :
       SaveInterrupted(filename, n, committed)
  \/ \E n \in 1..2, committed \in BOOLEAN : ClearInterrupted(n, committed)

SpecLedger == InitLedger /\ [][NextLedger]_vars

(***************************************************************************)
(* The specification of one installation by checkUpdate(): version 1.0.0   *)
(* runs and the manifest offers 2.0.0 at http://h/fw-2.0.0.bin.            *)
(***************************************************************************)
\* "http://h/fw-2.0.0.bin" and "fw-2.0.0.bin".
UrlFw == <<104, 116, 116, 112, 58, 47, 47, 104, 47,
           102, 119, 45, 50, 46, 48, 46, 48, 46, 98, 105, 110>>
FwName == <<102, 119, 45, 50, 46, 48, 46, 48, 46, 98, 105, 110>>

FwManifest == <<Entry(V_2_0_0, UrlFw, FALSE)>>

InstallFetches == Fetches({FwManifest})

InitInstall ==
  /\ currentVersion = V_1_0_0
  /\ eepromFlash = BlankImage
  /\ ClientInit
  /\ PlatformFixed

NextInstall ==
  \/ \E fetch \in InstallFetches : CheckUpdate(fetch, MainDownloads)
  \/ \E avail \in MainAvails : StreamRead(avail)
  \/ StreamWait
  \/ StreamDrop
  \/ \E endOk \in BOOLEAN, commitOk \in BOOLEAN : Finish(endOk, commitOk)
  \/ Reboot

SpecInstall == InitInstall /\ [][NextInstall]_vars

(***************************************************************************)
(* The specification of the periodic check: setCheckInterval, the clock    *)
(* and loop().  The clock stops at MaxNow.                                 *)
(***************************************************************************)
MaxNow == 6

Intervals == {0, 1, 3}

\* Unsigned 32-bit arithmetic on the ints with the same bits.
\* Variant of Sub32 for a difference that is not reduced modulo 2^32: it is
\* not positive when the clock has rolled over since b.
SubNoWrap(a, b) == IF a >= 0 /\ b < 0 THEN 0 ELSE a - b

\* a - b modulo 2^32.
Sub32(a, b) ==
  IF b >= 0
  THEN IF a >= (- IntMax - 1) + b THEN a - b
       ELSE ((a + IntMax + 1) - b) + IntMax + 1
  ELSE IF a <= IntMax + b THEN a - b
       ELSE (((a - IntMax) - 1) - b) - IntMax - 1

\* a + 1 modulo 2^32.
Inc32(a) == IF a = IntMax THEN - IntMax - 1 ELSE a + 1

\* a > b as unsigned values.
Greater32(a, b) == IF (a < 0) <=> (b < 0) THEN a > b ELSE a < 0

\* The test of loop().
Due(interval, now, lastCheck) ==
  Greater32(interval, 0) /\ Greater32(Sub32(now, lastCheck), interval)

SetCheckInterval(interval) ==
  /\ pc = "idle"
  /\ op' = "setCheckInterval"
  /\ ret' = 0
  /\ timer' = [timer EXCEPT !.interval = interval, !.called = FALSE,
                            !.fired = FALSE, !.elapsed = 0]
  /\ UNCHANGED <<currentVersion, ledgerVars, updateInfo, progressCallback,
                 pc, transferVars, check, install, ledgerCall, resolve,
                 partitionVars>>

\* A millisecond passes.
Tick ==
  /\ pc = "idle"
  /\ timer.now < MaxNow
  /\ timer' = [timer EXCEPT !.now = Inc32(@),
                            !.since = IF @ >= 0 THEN @ + 1 ELSE @]
  /\ UNCHANGED <<currentVersion, ledgerVars, updateInfo, progressCallback,
                 pc, transferVars, op, ret, check, install, ledgerCall,
                 resolve, partitionVars>>

\* loop(): when the check is due, _lastCheck = millis() and checkUpdate().
Loop(fetch, downloads) ==
  /\ pc = "idle"
  /\ op' = "loop"
  /\ IF Due(timer.interval, timer.now, timer.lastCheck)
     THEN /\ timer' = [timer EXCEPT !.lastCheck = timer.now, !.called = TRUE,
                                    !.fired = TRUE, !.since = 0,
                                    !.elapsed =
                                      Sub32(timer.now, timer.lastCheck)]
          /\ CheckUpdateFrom(updateInfo, fetch, downloads)
     ELSE /\ timer' = [timer EXCEPT !.called = TRUE, !.fired = FALSE,
                                    !.elapsed =
                                      Sub32(timer.now, timer.lastCheck)]
          /\ ret' = 0
          /\ check' = NoCheck
          /\ NoTransfer
          /\ UNCHANGED <<currentVersion, ledgerVars, updateInfo,
                         progressCallback, pc, install, ledgerCall,
                         partitionVars>>
  /\ UNCHANGED resolve

\* The manifest fetches of the periodic check: failures and an empty list.
LoopFetches == Fetches({<< >>})

InitLoop ==
  /\ currentVersion = V_1_0_0
  /\ eepromFlash = BlankImage
  /\ ClientInit
  /\ PlatformFixed

NextLoop ==
  \/ \E interval \in Intervals : SetCheckInterval(interval)
  \/ Tick
  \/ \E fetch \in LoopFetches : Loop(fetch, MainDownloads)

SpecLoop == InitLoop /\ [][NextLoop]_vars

\* The periodic check of a client constructed within the last MaxNow
\* milliseconds before millis() rolls over from 2^32 - 1 to 0.
InitRollover ==
  /\ currentVersion = V_1_0_0
  /\ eepromFlash = BlankImage
  /\ ClientConstructed
  /\ \E k \in 1..MaxNow : timer = [NoTimer EXCEPT !.now = - k]
  /\ PlatformFixed

SpecRollover == InitRollover /\ [][NextLoop]_vars

(***************************************************************************)
(* The specification of followRedirects, one request at a time.  A chain   *)
(* is a number of redirects that carry a Location and then a last          *)
(* response, which is repeated when it is such a redirect (a loop).        *)
(***************************************************************************)
MaxHops == 6

RedirectCodes == {301, 302, 307, 308}

RECURSIVE Redirects(_, _)
Redirects(code, k) ==
  IF k = 0 THEN << >> ELSE <<R(code, TRUE)>> \o Redirects(code, k - 1)

\* The last responses: success, an error, a redirect without Location.
LastResponses == {R(200, FALSE), R(404, FALSE), R(302, FALSE)}

RedirectChains ==
  {Redirects(c, k) \o <<last>> :
     c \in RedirectCodes, k \in 0..MaxHops, last \in LastResponses}
  \cup {<<R(c, TRUE)>> : c \in RedirectCodes}

resolveUnchanged ==
  UNCHANGED <<currentVersion, timer, ledgerVars, updateInfo,
              progressCallback, pc, transferVars, op, ret, check, install,
              ledgerCall, partitionVars>>

\* The call: currentUrl = url, redirectCount = 0.
FollowRedirects(chain) ==
  /\ pc = "idle"
  /\ resolve.state \in {"none", "done"}
  /\ resolve' = [state |-> "loop", chain |-> chain, redirectCount |-> 0,
                 requests |-> 0, code |-> 0]
  /\ resolveUnchanged

\* One turn of the loop: a GET, and what its status code leads to.
Get ==
  /\ resolve.state = "loop"
  /\ resolve.redirectCount < maxRedirects
  /\ LET r == Hop(resolve.chain, resolve.requests + 1)
         made == [resolve EXCEPT !.requests = @ + 1]
     IN resolve' =
          IF IsRedirect(r.code)
          THEN IF ~r.location
               THEN [made EXCEPT !.state = "done", !.code = r.code]
               ELSE [made EXCEPT !.redirectCount = @ + 1]
          ELSE [made EXCEPT !.state = "done", !.code = r.code]
  /\ resolveUnchanged

\* The loop ends: too many redirects.
TooManyRedirects ==
  /\ resolve.state = "loop"
  /\ ~(resolve.redirectCount < maxRedirects)
  /\ resolve' = [resolve EXCEPT !.state = "done", !.code = -1]
  /\ resolveUnchanged

InitRedirect ==
  /\ currentVersion = V_1_0_0
  /\ eepromFlash = BlankImage
  /\ ClientInit
  /\ PlatformFixed

NextRedirect ==
  \/ \E chain \in RedirectChains : FollowRedirects(chain)
  \/ Get
  \/ TooManyRedirects

SpecRedirect == InitRedirect /\ [][NextRedirect]_vars

(***************************************************************************)
(* The specification of the operations that install or roll back, with     *)
(* every failure of the server and the platform: version 1.0.0 runs, the   *)
(* manifest is empty or offers 2.0.0, and the platform reports a next      *)
(* update partition or none, invalid or not.                               *)
(***************************************************************************)
FailureFetches == Fetches({<< >>, FwManifest})

InitFailure ==
  /\ currentVersion = V_1_0_0
  /\ eepromFlash = BlankImage
  /\ ClientInit
  /\ nextPartition \in {"ota_1", NULL}
  /\ lastInvalid \in {"ota_1", NULL}
  /\ bootPartition = "ota_0"
  /\ bootReq = NoBootReq
  /\ otaState = "VALID"
  /\ validReq = FALSE
  /\ markLog = << >>

NextFailure ==
  \/ \E fetch \in FailureFetches : CheckUpdate(fetch, MainDownloads)
  \/ \E fetch \in FailureFetches : ForceUpdate(fetch, MainDownloads)
  \/ \E resp \in MainDownloads : UpdateCached(resp)
  \/ \E fetch \in FailureFetches : UpdateChecked(fetch, MainDownloads)
  \/ \E resp \in MainDownloads : DoUpdate(UrlFw, resp)
  \/ \E setOk \in BOOLEAN : Rollback(setOk)
  \/ \E avail \in MainAvails : StreamRead(avail)
  \/ StreamWait
  \/ StreamDrop
  \/ \E endOk \in BOOLEAN, commitOk \in BOOLEAN : Finish(endOk, commitOk)
  \/ Reboot

SpecFailure == InitFailure /\ [][NextFailure]_vars

(***************************************************************************)
(* The specification of extractFilename: hasUpdate() on manifests whose    *)
(* one entry offers 2.0.0 at any URL of up to MaxUrlLen characters out of  *)
(* "a", "/" and "?".                                                       *)
(***************************************************************************)
MaxUrlLen == 4

UrlChars == {97, Slash, QMark}

Urls == SeqsUpTo(UrlChars, MaxUrlLen)

FilenameFetches == Fetches({<<Entry(V_2_0_0, u, FALSE)>> : u \in Urls})

InitFilename ==
  /\ currentVersion = V_1_0_0
  /\ eepromFlash = BlankImage
  /\ ClientInit
  /\ PlatformFixed

NextFilename == \E fetch \in FilenameFetches : HasUpdate(fetch)

SpecFilename == InitFilename /\ [][NextFilename]_vars

(***************************************************************************)
(* The specification of the ledger load: boots onto EEPROM images that the *)
(* program did not necessarily write, with any marker bytes, any length    *)
(* byte and a filled, a blank or a NUL-holding slot.                       *)
(***************************************************************************)
MarkerBytes == {OTA_EEPROM_MAGIC % 256, OTA_EEPROM_MAGIC \div 256, 0, 255}

LengthBytes == {0, 1, 2, OTA_EEPROM_SIZE - 4, OTA_EEPROM_SIZE - 3, 255}

\* The bytes of the slot: "aaa...", erased flash, and "a" NUL "aaa...".
SlotFills ==
  {[a \in Addrs |-> 97], [a \in Addrs |-> 255],
   [a \in Addrs |-> IF a = OTA_EEPROM_START_ADDR + 4 THEN 0 ELSE 97]}

StoredImage(lo, hi, len, fill) ==
  [a \in Addrs |->
     IF a = OTA_EEPROM_START_ADDR THEN lo
     ELSE IF a = OTA_EEPROM_START_ADDR + 1 THEN hi
     ELSE IF a = OTA_EEPROM_START_ADDR + 2 THEN len
     ELSE fill[a]]

StoredImages ==
  {StoredImage(lo, hi, len, fill) :
     lo \in MarkerBytes, hi \in MarkerBytes, len \in LengthBytes,
     fill \in SlotFills}

InitLoad ==
  /\ currentVersion = V_1_0_0
  /\ eepromFlash \in StoredImages
  /\ ClientInit
  /\ PlatformFixed

NextLoad ==
  \/ LoadLedger
  \/ \E fetch \in LoopFetches : HasUpdate(fetch)
  \/ PowerCycle

SpecLoad == InitLoad /\ [][NextLoad]_vars

(***************************************************************************)
(* The specification of the transfer of a large image: doUpdate on a       *)
(* stream that fills the buffer at every read.                             *)
(***************************************************************************)
LargeSizes == {BuffSize * 41950}

LargeDownloads ==
  {[chain |-> Chain200, size |-> n, beginOk |-> TRUE] : n \in LargeSizes}

NextLarge ==
  \/ OnProgress
  \/ \E resp \in LargeDownloads : DoUpdate(UrlA, resp)
  \/ StreamRead(BuffSize)
  \/ \E endOk \in BOOLEAN, commitOk \in BOOLEAN : Finish(endOk, commitOk)

SpecLarge == InitLoop /\ [][NextLarge]_vars

(***************************************************************************)
(* Properties.                                                             *)
(***************************************************************************)
\* a < b in the lexicographic order of the character codes.
LexLess(a, b) ==
  \E k \in 1..Len(b) :
    /\ \A j \in 1..(k - 1) : j <= Len(a) /\ a[j] = b[j]
    /\ (k > Len(a) \/ a[k] < b[k])

LexGreater(a, b) == LexLess(b, a)

\* The last hasUpdate call fetched a manifest it could use.
ManifestUsed == check.called /\ check.fetch.json = "ok"

Least(S) == CHOOSE i \in S : \A j \in S : i <= j

\* C1: for a manifest whose entries all have force = false, hasUpdate
\* returns true iff some entry's version is lexicographically greater than
\* the current version, and the cached decision is then that of the first
\* such entry, with force = false.
C1_NonForcedFirstGreater ==
  LET m == check.fetch.updater
      newer == {i \in DOMAIN m : LexGreater(m[i].version, currentVersion)}
  IN (ManifestUsed /\ \A i \in DOMAIN m : ~m[i].force) =>
       /\ check.ret = (newer # {})
       /\ check.ret =>
            updateInfo = [available |-> TRUE, force |-> FALSE,
                          version |-> m[Least(newer)].version,
                          url |-> m[Least(newer)].url,
                          filename |-> extractFilename(m[Least(newer)].url)]

\* Versions [1.0.0, 0.9.9] against 0.9.0: the chosen version is 1.0.0.
C1_Witness ==
  /\ ManifestUsed
  /\ check.fetch.updater = <<Entry(V_1_0_0, UrlA, FALSE),
                             Entry(V_0_9_9, UrlB, FALSE)>>
  /\ currentVersion = V_0_9_0
  /\ check.ret
  /\ updateInfo.version = V_1_0_0

\* C2: in manifest order, a forced entry whose filename is non-empty and
\* equals the last installed filename is passed over without a look at its
\* version, as is an entry that is not forced and not newer; the first
\* entry that is not passed over decides: hasUpdate returns true with its
\* version, url and filename, and with force = true when it is forced,
\* whatever its version and whatever follows it.
C2_ForcedSkippedOrFirst ==
  LET m == check.fetch.updater
      Skipped(i) == /\ m[i].force
                    /\ extractFilename(m[i].url) # EmptyStr
                    /\ extractFilename(m[i].url) = check.last
      Passed(i) == \/ Skipped(i)
                   \/ ~m[i].force /\ ~LexGreater(m[i].version, currentVersion)
      stop == {i \in DOMAIN m : ~Passed(i)}
  IN ManifestUsed =>
       /\ check.ret = (stop # {})
       /\ check.ret =>
            updateInfo = [available |-> TRUE, force |-> m[Least(stop)].force,
                          version |-> m[Least(stop)].version,
                          url |-> m[Least(stop)].url,
                          filename |-> extractFilename(m[Least(stop)].url)]

\* "a" is installed: the forced 2.0.0 entry with filename "a" is skipped
\* although it is newer, and the forced 0.9.9 entry after it is reported.
C2_Witness ==
  /\ ManifestUsed
  /\ check.last = FilenameA
  /\ check.fetch.updater = <<Entry(V_2_0_0, UrlA2, TRUE),
                             Entry(V_0_9_9, UrlDir, TRUE)>>
  /\ currentVersion = V_1_0_0
  /\ check.ret
  /\ updateInfo.force
  /\ updateInfo.url = UrlDir

\* C3: the first hasUpdate after the restart into a forced image that was
\* received in full, with no clearFirmwareRecord since, does not report
\* the forced entry with the installed URL again.
C3_ForcedNotReportedAgain ==
  install.phase = "checked" =>
    ~(check.ret /\ updateInfo.force /\ updateInfo.url = install.url)

\* C4: Update.end is called only with written = contentLength.
C4_EndOnlyWhenComplete ==
  session.endCalled => session.endAt = contentLength

\* C5: when the loop was left on a disconnect with some but not all of the
\* contentLength bytes written, doUpdate returns a negative outcome, the
\* image is not finalized, the ledger is not written and the device is not
\* restarted.
C5_DroppedTransferFails ==
  (session.dropped /\ session.endCalled /\ 0 < session.endAt
   /\ session.endAt < contentLength) =>
    /\ pc = "idle"
    /\ ret < 0
    /\ ~session.finalized
    /\ saved = "none"

\* C6: the device restarts after a transfer of exactly contentLength bytes
\* only when the filename was committed to the ledger.
C6_RestartOnlyAfterCommit ==
  (pc = "restarted" /\ session.finalized /\ session.endAt = contentLength) =>
    saved = "committed"

\* C7: bytes are written to flash only after a 200 response with a positive
\* content length and a successful Update.begin of that length; when
\* Update.begin fails doUpdate returns -4 and no byte was written.
C7_NoWriteBeforeBegin ==
  /\ session.bytes > 0 =>
       /\ download.code = 200
       /\ download.size > 0
       /\ download.size = contentLength
       /\ download.begun
  /\ (download.called /\ download.code = 200 /\ download.size > 0
      /\ ~download.begun) =>
       /\ pc = "idle"
       /\ ret = -4
       /\ session.bytes = 0

\* Update.begin failed: -4, nothing written.
C7_Witness ==
  /\ op = "checkUpdate"
  /\ download.called /\ download.code = 200 /\ download.size = 1000
  /\ ~download.begun
  /\ ret = -4
  /\ session.bytes = 0

C9_CanRollbackIff ==
  op = "canRollback" =>
    ((ret = 1) <=> (nextPartition # NULL /\ nextPartition # lastInvalid))

\* The next-update partition is the last invalid one: false.
C9_Witness ==
  /\ op = "canRollback"
  /\ nextPartition \in Partitions
  /\ nextPartition = lastInvalid
  /\ ret = 0

C11_MarkValidOnlyWhenPending ==
  \A i \in DOMAIN markLog :
    /\ markLog[i].req <=>
         (markLog[i].readOk /\ markLog[i].before = "PENDING_VERIFY")
    /\ ~markLog[i].req => (~markLog[i].ret
                           /\ markLog[i].after = markLog[i].before)

\* Called on an image the platform reports INVALID: nothing asked, false.
C11_Witness ==
  /\ op = "markAsValid"
  /\ markLog # << >>
  /\ markLog[Len(markLog)].before = "INVALID"
  /\ markLog[Len(markLog)].readOk
  /\ ~validReq
  /\ ret = 0

C13_SaveLoadRoundTrip ==
  (op = "initEEPROM" /\ ledgerCall.kind = "save" /\ saved = "committed") =>
    /\ eepromInitialized
    /\ lastInstalledFilename = ledgerCall.arg

\* The longest filename the save accepts, 124 characters, loaded back.
C13_Witness ==
  /\ op = "initEEPROM"
  /\ saved = "committed"
  /\ ledgerCall.arg = Name(OTA_EEPROM_SIZE - 4, 99)
  /\ lastInstalledFilename = Name(OTA_EEPROM_SIZE - 4, 99)

\* C14 as stated: a save of a filename that is too long returns false,
\* changes no byte of the committed image and leaves the last installed
\* filename in memory as it was before the call.
C14_TooLongKeepsMemory ==
  (op = "saveFilenameToEEPROM" /\ FilenameTooLong(ledgerCall.arg)) =>
    /\ ret = 0
    /\ eepromFlash = ledgerCall.flash
    /\ lastInstalledFilename = ledgerCall.last

\* C14, amended: a save of a filename that is too long returns false and
\* changes no byte of the committed image; the last installed filename in
\* memory is as before when the ledger was loaded before the call, and is
\* otherwise the filename of the committed record, which the call loads.
C14_TooLongKeepsRecord ==
  (op = "saveFilenameToEEPROM" /\ FilenameTooLong(ledgerCall.arg)) =>
    /\ ret = 0
    /\ saved = "tooLong"
    /\ eepromFlash = ledgerCall.flash
    /\ eepromInitialized
    /\ lastInstalledFilename = IF ledgerCall.init THEN ledgerCall.last
                               ELSE LoadOf(ledgerCall.flash)

\* A save of 126 characters as the first call after a boot, on a record "a".
C14_Witness ==
  /\ op = "saveFilenameToEEPROM"
  /\ ledgerCall.arg = Name(OTA_EEPROM_SIZE - 2, 101)
  /\ ~ledgerCall.init
  /\ ret = 0
  /\ lastInstalledFilename = <<97>>

\* C15: after a loss of power within a save or a clear, the committed image
\* loads as the filename it held before the call or as the filename being
\* saved (none, for a clear), and that is what the load after the boot
\* yields; when the commit had not taken effect the image is unchanged.
C15_NoTornRecord ==
  saved = "interrupted" =>
    /\ LoadOf(eepromFlash) \in {LoadOf(ledgerCall.flash), ledgerCall.arg}
    /\ eepromInitialized =>
         lastInstalledFilename \in {LoadOf(ledgerCall.flash), ledgerCall.arg}
    /\ LoadOf(eepromFlash) # ledgerCall.arg => eepromFlash = ledgerCall.flash

\* A save of 124 characters loses power on a record "a": "a" is loaded.
C15_Witness ==
  /\ saved = "interrupted"
  /\ op = "initEEPROM"
  /\ ledgerCall.kind = "save"
  /\ ledgerCall.arg = Name(OTA_EEPROM_SIZE - 4, 99)
  /\ lastInstalledFilename = <<97>>

\* Every collaborator of the checkUpdate() call made last succeeded: the
\* manifest was fetched and parsed, the firmware request was answered 200
\* with a content length, Update.begin accepted it, the connection held,
\* Update.end(true) and EEPROM.commit() returned true.
AllSucceeded ==
  /\ ManifestUsed
  /\ download.begun
  /\ session.endCalled /\ ~session.dropped /\ session.finalized
  /\ saved = "committed"

\* C16: in a checkUpdate() on the manifest offering 2.0.0 at
\* http://h/fw-2.0.0.bin while 1.0.0 runs, the download follows a manifest
\* evaluation that reported the update, Update.begin follows the 200
\* response, bytes are written only in a begun session, Update.end follows
\* the loop, "fw-2.0.0.bin" is saved only after Update.end succeeded, and
\* the restart follows the save attempt; when every collaborator succeeded
\* the outcome is 1, the device restarts and the ledger holds
\* "fw-2.0.0.bin".
C16_InstallOrder ==
  (op = "checkUpdate" /\ currentVersion = V_1_0_0
   /\ check.fetch.updater = FwManifest) =>
    /\ download.called => (ManifestUsed /\ check.ret /\ url = UrlFw)
    /\ session.begun => (download.called /\ download.code = 200)
    /\ session.bytes > 0 => session.begun
    /\ session.endCalled => (session.begun /\ pc \in {"idle", "restarted"})
    /\ ledgerCall.kind # "none" =>
         (session.finalized /\ ledgerCall.kind = "save"
          /\ ledgerCall.arg = FwName)
    /\ pc = "restarted" => (saved \in {"committed", "commitFailed"}
                            /\ session.finalized /\ ret = 1)
    /\ AllSucceeded =>
         /\ pc = "restarted"
         /\ ret = 1
         /\ lastInstalledFilename = FwName
         /\ LoadOf(eepromFlash) = FwName

\* The installation done: 1000 bytes written, saved, restarting.
C16_Witness ==
  /\ op = "checkUpdate"
  /\ currentVersion = V_1_0_0
  /\ check.fetch.updater = FwManifest
  /\ AllSucceeded
  /\ session.endAt = 1000
  /\ pc = "restarted"
  /\ ret = 1
  /\ lastInstalledFilename = FwName

\* C17: every outcome is one of 1, 0, -1 .. -5, and -3 stands for one
\* cause, a firmware request answered with an HTTP status other than 200:
\* not for redirects that ran out (followRedirects returns -1), nor for a
\* 200 response without a positive content length.
C17_OneCausePerCode ==
  /\ ret \in {1, 0, -1, -2, -3, -4, -5}
  /\ (download.called /\ url # EmptyStr /\ pc = "idle" /\ ret = -3) =>
       (download.code # 200 /\ download.code # -1)

\* C18: a call of update() with a cached decision that is available and
\* has a url transfers that url and evaluates no manifest; any other call
\* evaluates the manifest, transfers the url of the decision when the
\* evaluation reports an update and otherwise returns 0 with no firmware
\* request.
C18_UpdateUsesCache ==
  [][(pc = "idle" /\ op' = "update") =>
       IF updateInfo.available /\ updateInfo.url # EmptyStr
       THEN /\ ~check'.called
            /\ download'.called
            /\ url' = updateInfo.url
            /\ updateInfo' = updateInfo
       ELSE /\ check'.called
            /\ check'.ret => (download'.called /\ url' = updateInfo'.url)
            /\ ~check'.ret => (/\ ret' = 0
                               /\ pc' = "idle"
                               /\ ~download'.called
                               /\ session' = NoSession)]_vars

\* update() streaming the cached url, no manifest fetched.
C18_Witness ==
  /\ op = "update"
  /\ ~check.called
  /\ download.called
  /\ updateInfo.available
  /\ url = updateInfo.url
  /\ url = UrlA
  /\ pc = "streaming"

\* The manifest of the hasUpdate call made last could not be used: the
\* fetch was not answered 200, the JSON was invalid, or there was no
\* updater array to iterate.
ManifestUnusable ==
  /\ check.called
  /\ (check.fetch.json # "ok" \/ check.fetch.updater = << >>)

C20_HasUpdateOnlyChecks ==
  [][(pc = "idle" /\ op' = "hasUpdate") =>
       /\ pc' = "idle"
       /\ download' = NoDownload
       /\ session' = NoSession
       /\ written' = 0
       /\ saved' = "none"
       /\ ledgerCall' = NoLedgerCall
       /\ eepromFlash' = eepromFlash
       /\ partitionVars' = partitionVars
       /\ currentVersion' = currentVersion
       /\ progressCallback' = progressCallback
       /\ eepromInitialized'
       /\ eepromInitialized =>
            (/\ lastInstalledFilename' = lastInstalledFilename
             /\ eepromRam' = eepromRam)
       /\ ~eepromInitialized =>
            (/\ lastInstalledFilename' = LoadOf(eepromFlash)
             /\ eepromRam' = eepromFlash)]_vars

\* hasUpdate() has reported an update and nothing else has happened.
C20_Witness ==
  /\ op = "hasUpdate"
  /\ check.ret
  /\ updateInfo.available
  /\ ret = 1
  /\ pc = "idle"
  /\ session = NoSession

\* C21: a loop() call invokes checkUpdate() exactly when the interval is
\* greater than 0 and millis() - _lastCheck is greater than or equal to it,
\* and _lastCheck is then millis().
C21_FiresAtInterval ==
  timer.called =>
    /\ timer.fired <=> (timer.interval > 0 /\ timer.elapsed >= timer.interval)
    /\ timer.fired => (check.called /\ timer.lastCheck = timer.now)

\* C22: a cached decision that says an update is available carries a
\* non-empty url, and a check that reports an update leaves one.
C22_AvailableHasUrl ==
  /\ updateInfo.available => updateInfo.url # EmptyStr
  /\ (pc = "idle" /\ op = "hasUpdate" /\ ret = 1)
       => updateInfo.url # EmptyStr

\* The redirects with a Location at the head of a chain.
RECURSIVE LeadingRedirects(_, _)
LeadingRedirects(chain, i) ==
  IF i <= Len(chain) /\ IsRedirect(chain[i].code) /\ chain[i].location
  THEN 1 + LeadingRedirects(chain, i + 1)
  ELSE 0

\* C23: a returned followRedirects call made at most maxRedirects + 1
\* requests; when the chain reaches a response that is not a redirect after
\* at most maxRedirects redirects the call returns that response's status,
\* and when the chain needs more redirects or loops the call returns -1.
C23_ResolvesWithinBound ==
  resolve.state = "done" =>
    LET k == LeadingRedirects(resolve.chain, 1)
        loops == k = Len(resolve.chain)
    IN /\ resolve.requests <= maxRedirects + 1
       /\ resolve.code = followRedirects(resolve.chain)
       /\ (loops \/ k > maxRedirects) => resolve.code = -1
       /\ (~loops /\ k <= maxRedirects
             /\ ~IsRedirect(resolve.chain[k + 1].code))
            => resolve.code = resolve.chain[k + 1].code

\* The operations that install or roll back.
Installers == {"update", "checkUpdate", "forceUpdate", "doUpdate", "rollback"}

\* C24 as stated: a step of update(), checkUpdate(), forceUpdate(),
\* doUpdate() or rollback() that does not restart the device leaves the
\* persisted record and the last installed filename in memory as they were,
\* an operation that returns does so with 0 or a negative value and one that
\* restarts with 1, and the record changes only with a finalize that
\* succeeded.
C24_FailureKeepsLedgerExactly ==
  [][op' \in Installers =>
       /\ pc' = "idle" => ret' <= 0
       /\ pc' = "restarted" => ret' = 1
       /\ pc' # "restarted" =>
            (/\ eepromFlash' = eepromFlash
             /\ lastInstalledFilename' = lastInstalledFilename)
       /\ eepromFlash' # eepromFlash => session'.finalized]_vars

\* C24, amended: as above, except that the first check after a boot loads
\* the last installed filename from the persisted record.
C24_FailureKeepsLedger ==
  [][op' \in Installers =>
       /\ pc' = "idle" => ret' <= 0
       /\ pc' = "restarted" => ret' = 1
       /\ pc' # "restarted" =>
            (/\ eepromFlash' = eepromFlash
             /\ \/ lastInstalledFilename' = lastInstalledFilename
                \/ (/\ ~eepromInitialized
                    /\ eepromInitialized'
                    /\ check'.called
                    /\ lastInstalledFilename' = LoadOf(eepromFlash)))
       /\ eepromFlash' # eepromFlash => session'.finalized]_vars

\* An installation has failed on a device whose record names fw-2.0.0.bin.
C24_Witness ==
  /\ pc = "idle"
  /\ op \in Installers
  /\ ret < 0
  /\ LoadOf(eepromFlash) = FwName
  /\ lastInstalledFilename = FwName

\* C25: after a hasUpdate() call has returned, the cached decision says
\* available exactly when the call returned true.
C25_AvailableIsResult ==
  (pc = "idle" /\ op = "hasUpdate") => (updateInfo.available <=> ret = 1)

\* C26: when a transfer has delivered every byte, the finalize has
\* succeeded and the save has been committed, the persisted record names
\* the file of the URL that was transferred.
C26_PersistsTransferredUrl ==
  (pc = "restarted" /\ op \in {"checkUpdate", "update", "doUpdate"}
   /\ written = contentLength /\ session.finalized
   /\ saved = "committed") =>
    LoadOf(eepromFlash) = extractFilename(url)

\* The URL before its query string, and the text after the last '/'.
PathOf(u) ==
  IF indexOf(u, QMark) = -1 THEN u ELSE substring(u, 0, indexOf(u, QMark))

LastSegment(path) ==
  IF lastIndexOf(path, Slash) = -1 THEN EmptyStr
  ELSE substring(path, lastIndexOf(path, Slash) + 1, Len(path))

\* C27: the filename that hasUpdate() caches for the url it reports is empty
\* when the url has no '/' or ends with '/', is otherwise the last segment
\* of the url's path (the url before its query string) when that path has a
\* '/', and is the same whenever the same url is evaluated.
C27_LastSegmentWithoutQuery ==
  (pc = "idle" /\ op = "hasUpdate" /\ ret = 1) =>
    LET u == updateInfo.url
    IN /\ updateInfo.filename = extractFilename(u)
       /\ (lastIndexOf(u, Slash) = -1 \/ u[Len(u)] = Slash)
            => updateInfo.filename = EmptyStr
       /\ (lastIndexOf(PathOf(u), Slash) # -1 /\ u[Len(u)] # Slash)
            => updateInfo.filename = LastSegment(PathOf(u))

\* The length bytes that the load accepts.
ValidLengths == 1..(OTA_EEPROM_SIZE - 4)

\* The first len bytes of the slot of an image.
StoredBytes(flash, len) ==
  [i \in 1..len |-> flash[OTA_EEPROM_START_ADDR + 3 + (i - 1)]]

ClearedName ==
  IF ledgerCall.init THEN ledgerCall.last ELSE LoadOf(ledgerCall.flash)

\* A hasUpdate call follows a clearFirmwareRecord call that returned true,
\* and its manifest begins with a forced entry for the cleared filename.
ForcedAgainAfterClear ==
  /\ pc = "idle"
  /\ op = "clearFirmwareRecord"
  /\ ret = 1
  /\ ClearedName # EmptyStr
  /\ op' = "hasUpdate"
  /\ check'.fetch.json = "ok"
  /\ Len(check'.fetch.updater) > 0
  /\ check'.fetch.updater[1].force
  /\ extractFilename(check'.fetch.updater[1].url) = ClearedName

\* C29 as stated: a clearFirmwareRecord call that returns true leaves no
\* record for the next load and an empty filename in memory, and the next
\* hasUpdate reports a forced entry for the cleared filename; a call whose
\* commit fails returns false and leaves the committed image and the
\* filename in memory as they were.
C29_ClearForgetsExactly ==
  [][/\ (pc = "idle" /\ op' = "clearFirmwareRecord") =>
          IF ret' = 1
          THEN /\ LoadOf(eepromFlash') = EmptyStr
               /\ lastInstalledFilename' = EmptyStr
          ELSE /\ ret' = 0
               /\ eepromFlash' = eepromFlash
               /\ lastInstalledFilename' = lastInstalledFilename
     /\ ForcedAgainAfterClear =>
          (/\ ret' = 1
           /\ updateInfo'.available
           /\ updateInfo'.force
           /\ updateInfo'.url = check'.fetch.updater[1].url)]_vars

\* C29, amended: as above, except that a call whose commit fails, made
\* before any other ledger access since the boot, leaves in memory the
\* filename it loaded from the persisted record.
C29_ClearForgets ==
  [][/\ (pc = "idle" /\ op' = "clearFirmwareRecord") =>
          IF ret' = 1
          THEN /\ LoadOf(eepromFlash') = EmptyStr
               /\ lastInstalledFilename' = EmptyStr
          ELSE /\ ret' = 0
               /\ eepromFlash' = eepromFlash
               /\ lastInstalledFilename' =
                    IF eepromInitialized THEN lastInstalledFilename
                    ELSE LoadOf(eepromFlash)
     /\ ForcedAgainAfterClear =>
          (/\ ret' = 1
           /\ updateInfo'.available
           /\ updateInfo'.force
           /\ updateInfo'.url = check'.fetch.updater[1].url)]_vars

\* After a clear of the record "a" that returned true, hasUpdate has
\* reported the forced entry for "a".
C29_Witness ==
  /\ op = "hasUpdate"
  /\ ret = 1
  /\ updateInfo.force
  /\ updateInfo.filename = FilenameA
  /\ LoadOf(eepromFlash) = EmptyStr
  /\ eepromFlash # BlankImage
  /\ lastInstalledFilename = EmptyStr

\* C30: rollback() returns -1 when the platform reports no next update
\* partition, and returns 0 only when that partition exists and is the last
\* invalid one.
C30_NoPartitionIsMinusOne ==
  op = "rollback" =>
    /\ nextPartition = NULL => ret = -1
    /\ ret = 0 => (nextPartition # NULL /\ nextPartition = lastInvalid)

\* C31: at every point of the streaming loop written is at most
\* contentLength and lastPercent at most 100, every percent passed to the
\* progress callback lies in 0..100, and a transfer that has received every
\* byte has passed 100 last.
C31_ProgressWithinBounds ==
  /\ session.begun => written <= contentLength
  /\ lastPercent <= 100
  /\ \A i \in 1..Len(emitted) : emitted[i] \in 0..100
  /\ (pc = "finalize" /\ ~session.dropped /\ progressCallback)
       => (emitted # << >> /\ emitted[Len(emitted)] = 100)

\* C32: in the streaming loop, after a chunk, lastPercent is
\* floor(written * 100 / contentLength), and the percents passed to the
\* progress callback are not negative and do not decrease.
C32_PercentIsFloor ==
  /\ (session.begun /\ written > 0)
       => lastPercent = ExactPercent(written, contentLength)
  /\ \A i \in 1..Len(emitted) : emitted[i] >= 0
  /\ \A i \in 1..(Len(emitted) - 1) : emitted[i] <= emitted[i + 1]

\* C33: once the ledger is loaded, the last installed filename in memory
\* is the filename of the committed record, empty when there is none, after
\* every sequence of saves and clears whose commits succeed or fail.
C33_MemoryIsCommittedRecord ==
  eepromInitialized => lastInstalledFilename = LoadOf(eepromFlash)

\* A commit has failed after a record was committed: the RAM buffer differs
\* from the committed image, whose record is the filename in memory.
C33_Witness ==
  /\ eepromInitialized
  /\ ledgerCall.kind # "none"
  /\ ret = 0
  /\ eepromRam # eepromFlash
  /\ lastInstalledFilename # EmptyStr
  /\ lastInstalledFilename = LoadOf(eepromFlash)

\* C34: a doUpdate call that has entered its loop returns or restarts the
\* device in the end, and every step that stays in the loop and changes
\* anything has written at least one byte more.
C34_LoopTerminates ==
  /\ (pc \in {"streaming", "finalize"}) ~> (pc \in {"idle", "restarted"})
  /\ [][(pc = "streaming" /\ pc' = "streaming") => written' > written]_vars

\* A doUpdate call has returned or restarted after its loop was left on a
\* disconnect before every byte was written.
C34_Witness ==
  /\ op = "doUpdate"
  /\ pc \in {"idle", "restarted"}
  /\ session.dropped
  /\ session.endCalled
  /\ written < contentLength

\* C35: a loop() call made after the check has fired once invokes
\* checkUpdate() exactly when the interval is greater than 0 and more
\* milliseconds than the interval have passed since the check fired last,
\* whether or not millis() has rolled over in between.
C35_FiresAcrossRollover ==
  [][(pc = "idle" /\ op' = "loop" /\ timer'.called /\ timer'.now = timer.now
        /\ timer.since >= 0) =>
       /\ timer'.fired <=>
            (timer.interval > 0 /\ timer.since > timer.interval)
       /\ timer'.elapsed = timer.since]_vars

\* The check has fired at a value of millis() that is smaller than the
\* _lastCheck of the check before, which was made before the rollover.
C35_Witness ==
  /\ op = "loop"
  /\ timer.fired
  /\ timer.since = 0
  /\ timer.now >= 0
  /\ timer.elapsed > timer.now
  /\ timer.elapsed <= 2 * MaxNow

====
